---------------------------- MODULE Spec2Model ----------------------------
(***************************************************************************)
(* Text buffer (Row, Document) and cursor/viewport controller (Editor) of  *)
(* the terminal text editor.  The text of the status and message bars and  *)
(* the drawing of the screen are left out: no operation reads them.        *)
(*                                                                         *)
(* A Rust String is modelled as a sequence of code points, each written as *)
(* a one-character TLA+ string.  "M" stands for a combining mark (Unicode   *)
(* class Extend, e.g. U+0301), "T" for the tab character (class Control);  *)
(* every other code point is an ordinary base character.  Byte offsets of  *)
(* the source (String::find, grapheme_indices) are offsets of code points  *)
(* here: both only ever fall on code point boundaries.                     *)
(* Option<T> is modelled as a sequence of length <= 1: <<>> is None and    *)
(* <<v>> is Some(v).                                                        *)
(***************************************************************************)
EXTENDS Integers, Sequences, FiniteSets, TLC

VARIABLES
    rows,             \* Document.rows: Seq of Row = [string, len]
    dirty,            \* Document.dirty
    file_name,        \* Document.file_name: Option<String>
    cursor_position,  \* Editor.cursor_position: Position = [x, y]
    offset,           \* Editor.offset: Position
    mode,             \* Editor.mode: "Normal" | "CtrlXPressed"
    should_quit,      \* Editor.should_quit
    term,             \* Terminal::size() as read by the last command
    panicked,         \* the process aborted on a Rust panic
    row,              \* the Row under test (row-level specification)
    call              \* the last key pressed, or the last call made on row /
                      \* document / scroll and what it was given and returned

vars == <<rows, dirty, file_name, cursor_position, offset, mode, should_quit,
          term, panicked, row, call>>

-----------------------------------------------------------------------------
(* Bounds of the model *)

MaxChars == 2        \* code points of the editor's document, all lines together
MaxRows == 2         \* lines of the editor's document
MaxStr == 4          \* code points of a Row under test
MaxDocRows == 3      \* lines of a Document under test
MaxDocChars == 3     \* code points of a Document under test, all lines together
MaxCoord == 2        \* cursor and offset coordinates, terminal width and height under test

Min(a, b) == IF a < b THEN a ELSE b

\* usize::saturating_sub
saturating_sub(a, b) == IF a > b THEN a - b ELSE 0

None == <<>>
Some(v) == <<v>>

-----------------------------------------------------------------------------
(* Strings and grapheme clusters (unicode_segmentation::graphemes(true)) *)

Chars == {"a", "b", "M", "T"}

Class(c) == IF c = "M" THEN "Extend" ELSE IF c = "T" THEN "Control" ELSE "Other"

\* UAX #29: no break before Extend (GB9), except after Control (GB4) and at
\* the start of the text (GB1); a break everywhere else (GB999).
IsBreakBefore(s, i) ==
    \/ i = 1
    \/ ~(Class(s[i]) = "Extend" /\ Class(s[i - 1]) # "Control")

\* number of code points of the first cluster of a non-empty s
FirstClusterLen(s) ==
    LET brk == {i \in 2..Len(s) : IsBreakBefore(s, i)}
    IN  IF brk = {} THEN Len(s)
        ELSE (CHOOSE i \in brk : \A j \in brk : i <= j) - 1

RECURSIVE Graphemes(_)
Graphemes(s) ==
    IF s = <<>> THEN <<>>
    ELSE LET n == FirstClusterLen(s)
         IN  <<SubSeq(s, 1, n)>> \o Graphemes(SubSeq(s, n + 1, Len(s)))

\* Iterator::take / Iterator::skip on the clusters, and collect::<String>()
Take(g, n) == SubSeq(g, 1, Min(n, Len(g)))
Skip(g, n) == SubSeq(g, Min(n, Len(g)) + 1, Len(g))

RECURSIVE Collect(_)
Collect(g) == IF g = <<>> THEN <<>> ELSE Head(g) \o Collect(Tail(g))

\* all strings over the alphabet A of at most n code points
RECURSIVE StringsOver(_, _)
StringsOver(A, n) ==
    IF n = 0 THEN {<<>>}
    ELSE LET S == StringsOver(A, n - 1)
         IN  S \cup {Append(s, c) : s \in {t \in S : Len(t) = n - 1}, c \in A}

-----------------------------------------------------------------------------
(* Row (row.rs) *)

update_len(r) == [r EXCEPT !.len = Len(Graphemes(r.string))]

Row_default == [string |-> <<>>, len |-> 0]

Row_from(slice) == update_len([string |-> slice, len |-> 0])

\* Row::insert taking x_position as an offset in code points, not in clusters
Row_insert_at_code_point(r, x_position, c) ==
    IF x_position >= r.len
    THEN update_len([r EXCEPT !.string = Append(r.string, c)])
    ELSE update_len([r EXCEPT !.string =
             Append(SubSeq(r.string, 1, x_position), c)
                 \o SubSeq(r.string, x_position + 1, Len(r.string))])

Row_insert(r, x_position, c) ==
    IF x_position >= r.len
    THEN update_len([r EXCEPT !.string = Append(r.string, c)])
    ELSE LET g == Graphemes(r.string)
             result == Collect(Take(g, x_position))
             split == Collect(Skip(g, x_position))
         IN  update_len([r EXCEPT !.string = Append(result, c) \o split])

Row_append(r, new) == update_len([r EXCEPT !.string = r.string \o new.string])

Row_delete(r, at) ==
    IF at >= r.len THEN r
    ELSE LET g == Graphemes(r.string)
             result == Collect(Take(g, at))
             split == Collect(Skip(g, at + 1))
         IN  update_len([r EXCEPT !.string = result \o split])

\* Row::split whose remainder starts one cluster too late
Row_split_skips_one(r, at) ==
    LET g == Graphemes(r.string)
        result == Collect(Take(g, at))
        new_row == Collect(Skip(g, at + 1))
    IN  <<update_len([r EXCEPT !.string = result]), Row_from(new_row)>>

\* Row::split: <<self after the call, the returned row>>
Row_split(r, at) ==
    LET g == Graphemes(r.string)
        result == Collect(Take(g, at))
        new_row == Collect(Skip(g, at))
    IN  <<update_len([r EXCEPT !.string = result]), Row_from(new_row)>>

\* str::find: offset of the first occurrence of query in s
str_find(s, query) ==
    LET occ == {i \in 1..(Len(s) - Len(query) + 1) :
                    SubSeq(s, i, i + Len(query) - 1) = query}
    IN  IF occ = {} THEN None
        ELSE Some((CHOOSE i \in occ : \A j \in occ : i <= j) - 1)

\* offsets (0-based) at which the clusters of s start, in order
RECURSIVE grapheme_indices(_, _)
grapheme_indices(g, from) ==
    IF g = <<>> THEN <<>>
    ELSE <<from>> \o grapheme_indices(Tail(g), from + Len(Head(g)))

Row_find(r, query) ==
    LET matching_byte_index == str_find(r.string, query)
        idx == grapheme_indices(Graphemes(r.string), 0)
    IN  IF matching_byte_index = None THEN None
        ELSE LET hit == {k \in 1..Len(idx) : idx[k] = matching_byte_index[1]}
             IN  IF hit = {} THEN None ELSE Some((CHOOSE k \in hit : TRUE) - 1)

-----------------------------------------------------------------------------
(* Document (document.rs).  d = [rows, dirty]; file_name is kept apart.    *)

Document_len(d) == Len(d.rows)

\* Vec::insert(at, v) and Vec::remove(at), for at within bounds
vec_insert(v, at, e) == SubSeq(v, 1, at) \o <<e>> \o SubSeq(v, at + 1, Len(v))
vec_remove(v, at) == SubSeq(v, 1, at) \o SubSeq(v, at + 2, Len(v))

\* Document::row: Option<&Row>
Document_row(d, index) ==
    IF index < Len(d.rows) THEN Some(d.rows[index + 1]) ELSE None

\* Document::insert_newline that puts the new row before line at.y
Document_insert_newline_above(d, at) ==
    IF at.y > Document_len(d) THEN d
    ELSE IF at.y = Document_len(d)
    THEN [d EXCEPT !.rows = Append(d.rows, Row_default)]
    ELSE LET sp == Row_split(d.rows[at.y + 1], at.x)
         IN  [d EXCEPT !.rows =
                 vec_insert([d.rows EXCEPT ![at.y + 1] = sp[1]], at.y, sp[2])]

Document_insert_newline(d, at) ==
    IF at.y > Document_len(d) THEN d
    ELSE IF at.y = Document_len(d)
    THEN [d EXCEPT !.rows = Append(d.rows, Row_default)]
    ELSE LET sp == Row_split(d.rows[at.y + 1], at.x)
         IN  [d EXCEPT !.rows =
                 vec_insert([d.rows EXCEPT ![at.y + 1] = sp[1]], at.y + 1, sp[2])]

\* Document::insert that also drops a write at at.y = len
Document_insert_drops_at_len(d, at, c) ==
    IF at.y >= Document_len(d) THEN d
    ELSE LET d1 == [d EXCEPT !.dirty = TRUE]
         IN  IF c = "\n" THEN Document_insert_newline(d1, at)
             ELSE [d1 EXCEPT !.rows[at.y + 1] = Row_insert(d1.rows[at.y + 1], at.x, c)]

\* c = "\n" is the newline character
Document_insert(d, at, c) ==
    IF at.y > Document_len(d) THEN d
    ELSE LET d1 == [d EXCEPT !.dirty = TRUE]
         IN  IF c = "\n" THEN Document_insert_newline(d1, at)
             ELSE IF at.y = Document_len(d1)
             THEN [d1 EXCEPT !.rows = Append(d1.rows, Row_insert(Row_default, 0, c))]
             ELSE [d1 EXCEPT !.rows[at.y + 1] = Row_insert(d1.rows[at.y + 1], at.x, c)]

RECURSIVE find_from(_, _, _)
find_from(rs, query, y) ==
    IF y >= Len(rs) THEN None
    ELSE LET x == Row_find(rs[y + 1], query)
         IN  IF x # None THEN Some([x |-> x[1], y |-> y])
             ELSE find_from(rs, query, y + 1)

\* Document::find without the skip(cursor_position.y)
Document_find_from_top(d, query, cursor) == find_from(d.rows, query, 0)

\* Document::find as "find next": it starts on the line after the cursor's
\* and goes on from the first line when it finds nothing below
Document_find_next_wrapping(d, query, cursor) ==
    LET below == find_from(d.rows, query, cursor.y + 1)
    IN  IF below # None THEN below ELSE find_from(d.rows, query, 0)

Document_find(d, query, cursor) == find_from(d.rows, query, cursor.y)

\* Document::delete that removes the next line without appending it
Document_delete_loses_next(d, at) ==
    LET d1 == [d EXCEPT !.dirty = TRUE]
        len == Document_len(d1)
    IN  IF at.y >= len THEN d1
        ELSE IF at.x = d1.rows[at.y + 1].len /\ at.y + 1 < len
        THEN [d1 EXCEPT !.rows = vec_remove(d1.rows, at.y + 1)]
        ELSE [d1 EXCEPT !.rows[at.y + 1] = Row_delete(d1.rows[at.y + 1], at.x)]

Document_delete(d, at) ==
    LET d1 == [d EXCEPT !.dirty = TRUE]
        len == Document_len(d1)
    IN  IF at.y >= len THEN d1
        ELSE IF at.x = d1.rows[at.y + 1].len /\ at.y + 1 < len
        THEN LET next_row == d1.rows[at.y + 2]
                 removed == vec_remove(d1.rows, at.y + 1)
             IN  [d1 EXCEPT !.rows =
                     [removed EXCEPT ![at.y + 1] = Row_append(removed[at.y + 1], next_row)]]
        ELSE [d1 EXCEPT !.rows[at.y + 1] = Row_delete(d1.rows[at.y + 1], at.x)]

\* Vec::remove panics when the index is out of bounds
delete_row_panics(d, at) == at >= Len(d.rows)

\* Document::delete_row, for an index Vec::remove accepts
Document_delete_row(d, at) == [d EXCEPT !.dirty = TRUE, !.rows = vec_remove(d.rows, at)]

\* Document::insert_row, for an index Vec::insert accepts
Document_insert_row(d, r, at) == [d EXCEPT !.dirty = TRUE, !.rows = vec_insert(d.rows, at, r)]

\* what the file system answers to File::create and to the writes
SinkOutcomes == {"ok", "create_fails", "write_fails"}

\* Document::save with the flag cleared before the writes are known to succeed
Document_save_clears_first(d, name, sink) ==
    IF name # None
    THEN <<[d EXCEPT !.dirty = FALSE], IF sink = "ok" THEN "Ok" ELSE "Err">>
    ELSE <<d, "Ok">>

\* Document::save: <<the document after the call, "Ok" or "Err">>
Document_save(d, name, sink) ==
    IF name # None
    THEN IF sink = "ok" THEN <<[d EXCEPT !.dirty = FALSE], "Ok">>
         ELSE <<d, "Err">>
    ELSE <<d, "Ok">>

-----------------------------------------------------------------------------
(* Editor (editor.rs): cursor movement, scrolling, line reordering          *)

Pos(x, y) == [x |-> x, y |-> y]

\* row.len() of the line at y, 0 when there is none
row_len_or_0(d, y) == LET r == Document_row(d, y) IN IF r # None THEN r[1].len ELSE 0

\* move_cursor whose PageDown stops on the last line instead of after it
move_cursor_page_down_to_last_line(d, cur, key, terminal_height) ==
    LET x == cur.x
        y == cur.y
        height == Document_len(d)
        width == row_len_or_0(d, y)
        moved ==
            CASE key = "Up" -> Pos(x, saturating_sub(y, 1))
              [] key = "Down" -> IF y < height THEN Pos(x, y + 1) ELSE Pos(x, y)
              [] key = "Left" ->
                    IF x > 0 THEN Pos(x - 1, y)
                    ELSE IF y > 0 THEN Pos(row_len_or_0(d, y - 1), y - 1)
                    ELSE Pos(x, y)
              [] key = "Right" ->
                    IF x < width THEN Pos(x + 1, y)
                    ELSE IF y < height THEN Pos(0, y + 1)
                    ELSE Pos(x, y)
              [] key = "PageUp" ->
                    Pos(x, IF y > terminal_height
                           THEN saturating_sub(y, terminal_height) ELSE 0)
              [] key = "PageDown" ->
                    Pos(x, IF y + terminal_height < height
                           THEN y + terminal_height ELSE saturating_sub(height, 1))
              [] key = "End" -> Pos(width, y)
              [] key = "Home" -> Pos(0, y)
              [] OTHER -> Pos(x, y)
        end_of_row == row_len_or_0(d, moved.y)
    IN  IF moved.x > end_of_row THEN Pos(end_of_row, moved.y) ELSE moved

move_cursor(d, cur, key, terminal_height) ==
    LET x == cur.x
        y == cur.y
        height == Document_len(d)
        width == row_len_or_0(d, y)
        moved ==
            CASE key = "Up" -> Pos(x, saturating_sub(y, 1))
              [] key = "Down" -> IF y < height THEN Pos(x, y + 1) ELSE Pos(x, y)
              [] key = "Left" ->
                    IF x > 0 THEN Pos(x - 1, y)
                    ELSE IF y > 0 THEN Pos(row_len_or_0(d, y - 1), y - 1)
                    ELSE Pos(x, y)
              [] key = "Right" ->
                    IF x < width THEN Pos(x + 1, y)
                    ELSE IF y < height THEN Pos(0, y + 1)
                    ELSE Pos(x, y)
              [] key = "PageUp" ->
                    Pos(x, IF y > terminal_height
                           THEN saturating_sub(y, terminal_height) ELSE 0)
              [] key = "PageDown" ->
                    Pos(x, IF y + terminal_height < height
                           THEN y + terminal_height ELSE height)
              [] key = "End" -> Pos(width, y)
              [] key = "Home" -> Pos(0, y)
              [] OTHER -> Pos(x, y)
        end_of_row == row_len_or_0(d, moved.y)
    IN  IF moved.x > end_of_row THEN Pos(end_of_row, moved.y) ELSE moved

\* scroll without the saturating_add(1) of its two "past the end" branches
scroll_one_short(cur, off, width, height) ==
    LET oy == IF cur.y < off.y THEN cur.y
              ELSE IF cur.y >= off.y + height
              THEN saturating_sub(cur.y, height)
              ELSE off.y
        ox == IF cur.x < off.x THEN cur.x
              ELSE IF cur.x >= off.x + width
              THEN saturating_sub(cur.x, width)
              ELSE off.x
    IN  Pos(ox, oy)

\* scroll that moves the window a whole page up when the cursor is above it
scroll_up_by_page(cur, off, width, height) ==
    LET oy == IF cur.y < off.y THEN saturating_sub(cur.y, height)
              ELSE IF cur.y >= off.y + height
              THEN saturating_sub(cur.y, height) + 1
              ELSE off.y
        ox == IF cur.x < off.x THEN cur.x
              ELSE IF cur.x >= off.x + width
              THEN saturating_sub(cur.x, width) + 1
              ELSE off.x
    IN  Pos(ox, oy)

scroll(cur, off, width, height) ==
    LET oy == IF cur.y < off.y THEN cur.y
              ELSE IF cur.y >= off.y + height
              THEN saturating_sub(cur.y, height) + 1
              ELSE off.y
        ox == IF cur.x < off.x THEN cur.x
              ELSE IF cur.x >= off.x + width
              THEN saturating_sub(cur.x, width) + 1
              ELSE off.x
    IN  Pos(ox, oy)

\* Editor::move_row: <<document, cursor>> after the call
move_row(d, cur, key, terminal_height) ==
    LET y == cur.y
        r == Document_row(d, y)
    IN  IF r = None THEN <<d, cur>>
        ELSE LET d1 == Document_delete_row(d, y)
                 d2 == CASE key = "Up" ->
                              IF y > 0 THEN Document_insert_row(d1, r[1], y - 1) ELSE d1
                         [] key = "Down" ->
                              IF y + 1 <= Document_len(d1)
                              THEN Document_insert_row(d1, r[1], y + 1) ELSE d1
                         [] OTHER -> d1
             IN  <<d2, move_cursor(d2, cur, key, terminal_height)>>

-----------------------------------------------------------------------------
(* Editor::process_keypress: one action per key, each ending in scroll()    *)

\* code points the input collaborator delivers as Key::Char, besides "\n"
TypedChars == {"a", "M"}

\* what the user may answer to the "Search: " prompt: prompt() returns None
\* for an empty or aborted answer, so a query is never empty
Queries == {<<"a">>, <<"M">>}

\* Terminal::size() as the terminal collaborator reports it to a command
TermSizes == {[width |-> w, height |-> h] : w \in 1..2, h \in 1..2}

Doc == [rows |-> rows, dirty |-> dirty]

RECURSIVE CodePoints(_)
CodePoints(rs) == IF rs = <<>> THEN 0 ELSE Len(Head(rs).string) + CodePoints(Tail(rs))

\* the bounds of the model, as a guard on the document a command produces
InBounds(d) == Len(d.rows) <= MaxRows /\ CodePoints(d.rows) <= MaxChars

\* the lines Document::open can load
LoadedRows ==
    LET RowSet == {Row_from(s) : s \in StringsOver(TypedChars, MaxChars)}
    IN  {rs \in UNION {[1..n -> RowSet] : n \in 0..MaxRows} : CodePoints(rs) <= MaxChars}

NoCall == [op |-> "none"]

Running == ~should_quit /\ ~panicked

\* the key process_keypress matched and, for Key::Char, its code point: kept
\* in call by the specification that records keys (SpecKey starts with a call
\* other than NoCall); Spec leaves call at NoCall
Pressed(key, arg) ==
    call' = IF call = NoCall THEN NoCall ELSE [op |-> key, arg |-> arg]

\* Key::Char(c) as the recorded key, with the lines and the cursor it was
\* pressed at
PressedChar(c) ==
    call' = IF call = NoCall THEN NoCall
            ELSE [op |-> "Char", arg |-> Some(c),
                  before |-> [rows |-> rows, cursor |-> cursor_position]]

\* the tail of process_keypress: the document and cursor the key produced,
\* then scroll() against the terminal size sz
Finish(d, cur, sz) ==
    /\ rows' = d.rows
    /\ dirty' = d.dirty
    /\ cursor_position' = cur
    /\ offset' = scroll(cur, offset, sz.width, sz.height)
    /\ term' = sz
    /\ UNCHANGED <<panicked, row>>

KeyEsc ==
    /\ Running
    /\ Pressed("Esc", None)
    /\ \E sz \in TermSizes : Finish(Doc, cursor_position, sz)
    /\ mode' = "Normal"
    /\ UNCHANGED <<file_name, should_quit>>

\* Ctrl-C; answer is the key that ends dirty_quit's loop
KeyCtrlC(answer) ==
    /\ Running
    /\ Pressed("CtrlC", None)
    /\ \E sz \in TermSizes : Finish(Doc, cursor_position, sz)
    /\ should_quit' = IF dirty THEN answer = "enter" ELSE TRUE
    /\ UNCHANGED <<file_name, mode>>

KeyCtrlX ==
    /\ Running
    /\ Pressed("CtrlX", None)
    /\ \E sz \in TermSizes : Finish(Doc, cursor_position, sz)
    /\ mode' = "CtrlXPressed"
    /\ UNCHANGED <<file_name, should_quit>>

KeyCtrlD ==
    /\ Running
    /\ Pressed("CtrlD", None)
    /\ IF delete_row_panics(Doc, cursor_position.y)
       THEN /\ panicked' = TRUE
            /\ UNCHANGED <<rows, dirty, cursor_position, offset, term, row>>
       ELSE LET d == Document_delete_row(Doc, cursor_position.y)
            IN  \E sz \in TermSizes : Finish(d, cursor_position, sz)
    /\ UNCHANGED <<file_name, mode, should_quit>>

\* Editor::search: the cursor after it; answer is what prompt() returns
search(d, cur, answer) ==
    IF answer = None THEN cur
    ELSE LET position == Document_find(d, answer[1], cur)
         IN  IF position # None THEN position[1] ELSE cur

\* what is recorded of a Ctrl-F: the answer of its prompt, how many Ctrl-F
\* in a row were given that answer (n, counted up to 2) and the cursor
\* before the first of them (from)
SearchRun(answer) ==
    IF call.op = "CtrlF" /\ call.arg.query = answer
    THEN [query |-> answer, from |-> call.arg.from, n |-> Min(call.arg.n + 1, 2)]
    ELSE [query |-> answer, from |-> cursor_position, n |-> 1]

KeyCtrlF(answer) ==
    /\ Running
    /\ Pressed("CtrlF", SearchRun(answer))
    /\ LET cur == search(Doc, cursor_position, answer)
       IN  \E sz \in TermSizes : Finish(Doc, cur, sz)
    /\ UNCHANGED <<file_name, mode, should_quit>>

\* Editor::save: answer is what the "Save As: " prompt returns when it is
\* shown, sink is what the file system does; result is what Document::save
\* returned, "none" when it was not called
Editor_save(d, name, answer, sink) ==
    IF name = None /\ answer = None
    THEN [d |-> d, file_name |-> name, result |-> "none"]
    ELSE LET new_name == IF name = None THEN answer ELSE name
             saved == Document_save(d, new_name, sink)
         IN  [d |-> saved[1], file_name |-> new_name, result |-> saved[2]]

KeyCtrlS(answer, sink) ==
    /\ Running
    /\ Pressed("CtrlS", None)
    /\ LET s == Editor_save(Doc, file_name, answer, sink)
       IN  /\ \E sz \in TermSizes : Finish(s.d, cursor_position, sz)
           /\ file_name' = s.file_name
    /\ UNCHANGED <<mode, should_quit>>

KeyChar(c) ==
    /\ Running
    /\ PressedChar(c)
    /\ LET d == Document_insert(Doc, cursor_position, c)
       IN  /\ InBounds(d)
           /\ \E sz \in TermSizes :
                 Finish(d, move_cursor(d, cursor_position, "Right", sz.height), sz)
    /\ UNCHANGED <<file_name, mode, should_quit>>

\* Backspace without the test that the cursor is not at (0, 0)
KeyBackspace_unguarded ==
    /\ Running
    /\ Pressed("Backspace", None)
    /\ \E sz \in TermSizes :
          LET cur == move_cursor(Doc, cursor_position, "Left", sz.height)
          IN  Finish(Document_delete(Doc, cur), cur, sz)
    /\ UNCHANGED <<file_name, mode, should_quit>>

KeyBackspace ==
    /\ Running
    /\ Pressed("Backspace", None)
    /\ \E sz \in TermSizes :
          IF cursor_position.x > 0 \/ cursor_position.y > 0
          THEN LET cur == move_cursor(Doc, cursor_position, "Left", sz.height)
               IN  Finish(Document_delete(Doc, cur), cur, sz)
          ELSE Finish(Doc, cursor_position, sz)
    /\ UNCHANGED <<file_name, mode, should_quit>>

KeyDelete ==
    /\ Running
    /\ Pressed("Delete", None)
    /\ LET d == Document_delete(Doc, cursor_position)
       IN  \E sz \in TermSizes : Finish(d, cursor_position, sz)
    /\ UNCHANGED <<file_name, mode, should_quit>>

\* Up and Down that return to Normal mode once they have moved a line
KeyUpDown_ends_line_move(key) ==
    /\ Running
    /\ Pressed(key, None)
    /\ \E sz \in TermSizes :
          IF mode = "CtrlXPressed"
          THEN LET m == move_row(Doc, cursor_position, key, sz.height)
               IN  Finish(m[1], m[2], sz)
          ELSE Finish(Doc, move_cursor(Doc, cursor_position, key, sz.height), sz)
    /\ mode' = "Normal"
    /\ UNCHANGED <<file_name, should_quit>>

\* Key::Up | Key::Down
KeyUpDown(key) ==
    /\ Running
    /\ Pressed(key, None)
    /\ \E sz \in TermSizes :
          IF mode = "CtrlXPressed"
          THEN LET m == move_row(Doc, cursor_position, key, sz.height)
               IN  Finish(m[1], m[2], sz)
          ELSE Finish(Doc, move_cursor(Doc, cursor_position, key, sz.height), sz)
    /\ UNCHANGED <<file_name, mode, should_quit>>

\* Key::Left | Key::Right | Key::PageDown | Key::PageUp | Key::End | Key::Home
KeyMove(key) ==
    /\ Running
    /\ Pressed(key, None)
    /\ \E sz \in TermSizes :
          Finish(Doc, move_cursor(Doc, cursor_position, key, sz.height), sz)
    /\ UNCHANGED <<file_name, mode, should_quit>>

\* any other key: only the scroll step
KeyOther ==
    /\ Running
    /\ Pressed("Other", None)
    /\ \E sz \in TermSizes : Finish(Doc, cursor_position, sz)
    /\ UNCHANGED <<file_name, mode, should_quit>>

\* Editor::default: no file (or one that could not be opened), or a file
Init ==
    /\ \/ rows = <<>> /\ file_name = None
       \/ rows \in LoadedRows /\ file_name = Some("f")
    /\ dirty = FALSE
    /\ cursor_position = Pos(0, 0)
    /\ offset = Pos(0, 0)
    /\ mode = "Normal"
    /\ should_quit = FALSE
    /\ term \in TermSizes
    /\ panicked = FALSE
    /\ row = Row_default
    /\ call = NoCall

Next ==
    \/ KeyEsc
    \/ \E answer \in {"enter", "esc"} : KeyCtrlC(answer)
    \/ KeyCtrlX
    \/ KeyCtrlD
    \/ \E answer \in {None} \cup {Some(q) : q \in Queries} : KeyCtrlF(answer)
    \/ \E answer \in {None, Some("f")}, sink \in SinkOutcomes : KeyCtrlS(answer, sink)
    \/ \E c \in TypedChars \cup {"\n"} : KeyChar(c)
    \/ KeyBackspace
    \/ KeyDelete
    \/ \E key \in {"Up", "Down"} : KeyUpDown(key)
    \/ \E key \in {"Left", "Right", "PageDown", "PageUp", "End", "Home"} : KeyMove(key)
    \/ KeyOther

Spec == Init /\ [][Next]_vars

\* the same editor, with call recording the key of the last command
InitKey ==
    /\ \/ rows = <<>> /\ file_name = None
       \/ rows \in LoadedRows /\ file_name = Some("f")
    /\ dirty = FALSE
    /\ cursor_position = Pos(0, 0)
    /\ offset = Pos(0, 0)
    /\ mode = "Normal"
    /\ should_quit = FALSE
    /\ term \in TermSizes
    /\ panicked = FALSE
    /\ row = Row_default
    /\ call = [op |-> "default", arg |-> None]

SpecKey == InitKey /\ [][Next]_vars

-----------------------------------------------------------------------------
(* Row under test: the public operations of Row applied to any row, with   *)
(* any argument.  call records the last operation: op, the row before it   *)
(* (pre), the row before the pair of operations when the operation undoes  *)
(* the one before it (orig), and its arguments and result.                 *)

RowsOver(A, n) == {Row_from(s) : s \in StringsOver(A, n)}

RowInit ==
    /\ row \in RowsOver(Chars, MaxStr)
    /\ call = [op |-> "from", pre |-> row, orig |-> row, pos |-> 0,
               arg |-> None, ret |-> None]
    /\ rows = <<>> /\ dirty = FALSE /\ file_name = None
    /\ cursor_position = Pos(0, 0) /\ offset = Pos(0, 0)
    /\ mode = "Normal" /\ should_quit = FALSE /\ panicked = FALSE
    /\ term = [width |-> 1, height |-> 1]

EditorUnchanged ==
    UNCHANGED <<rows, dirty, file_name, cursor_position, offset, mode,
                should_quit, term, panicked>>

RowInsert(pos, c) ==
    /\ Len(row.string) < MaxStr
    /\ row' = Row_insert(row, pos, c)
    /\ call' = [op |-> "insert", pre |-> row, orig |-> row, pos |-> pos,
                arg |-> Some(c), ret |-> None]
    /\ EditorUnchanged

\* a delete at the position of the insert just made completes a round trip
RowDelete(pos) ==
    /\ row' = Row_delete(row, pos)
    /\ call' = IF call.op = "insert" /\ call.pos = pos
               THEN [op |-> "insert_delete", pre |-> row, orig |-> call.pre,
                     pos |-> pos, arg |-> call.arg, ret |-> None]
               ELSE [op |-> "delete", pre |-> row, orig |-> row, pos |-> pos,
                     arg |-> None, ret |-> None]
    /\ EditorUnchanged

RowSplit(pos) ==
    /\ LET sp == Row_split(row, pos)
       IN  /\ row' = sp[1]
           /\ call' = [op |-> "split", pre |-> row, orig |-> row, pos |-> pos,
                       arg |-> None, ret |-> Some(sp[2])]
    /\ EditorUnchanged

\* appending the row the split just returned completes a round trip
RowAppend(other) ==
    /\ row' = Row_append(row, other)
    /\ call' = IF call.op = "split" /\ call.ret = Some(other)
               THEN [op |-> "split_append", pre |-> row, orig |-> call.pre,
                     pos |-> call.pos, arg |-> Some(other), ret |-> None]
               ELSE [op |-> "append", pre |-> row, orig |-> row, pos |-> 0,
                     arg |-> Some(other), ret |-> None]
    /\ EditorUnchanged

\* rows to append: the row a split just returned, or a short one
AppendArgs ==
    {r \in RowsOver(Chars, 1) \cup (IF call.ret # None THEN {call.ret[1]} ELSE {}) :
        Len(row.string) + Len(r.string) <= MaxStr}

RowNext ==
    \/ \E pos \in 0..(row.len + 1), c \in Chars : RowInsert(pos, c)
    \/ \E pos \in 0..(row.len + 1) : RowDelete(pos)
    \/ \E pos \in 0..(row.len + 1) : RowSplit(pos)
    \/ \E other \in AppendArgs : RowAppend(other)

SpecRow == RowInit /\ [][RowNext]_vars

-----------------------------------------------------------------------------
(* Document under test: one public operation of Document applied to any   *)
(* document the editor may hold, edited or not, at any position.  call     *)
(* records the operation: op, the document before it (pre), its arguments  *)
(* and its result.                                                         *)

DocChars == {"a", "M"}

DocQueries == StringsOver(DocChars, 2) \ {<<>>}

DocRowsSet ==
    LET RowSet == RowsOver(DocChars, MaxDocChars)
    IN  {rs \in UNION {[1..n -> RowSet] : n \in 0..MaxDocRows} :
            CodePoints(rs) <= MaxDocChars}

DocInBounds(d) == Len(d.rows) <= MaxDocRows /\ CodePoints(d.rows) <= MaxDocChars

\* positions handed to the document: also one line and one column too far
DocPositions == {Pos(x, y) : x \in 0..(MaxDocChars + 1), y \in 0..(Len(rows) + 1)}

DocInit ==
    /\ rows \in DocRowsSet
    /\ dirty \in BOOLEAN
    /\ file_name = Some("f")
    /\ call = [op |-> "none", pre |-> Doc, at |-> Pos(0, 0), arg |-> None,
               ret |-> None]
    /\ row = Row_default
    /\ cursor_position = Pos(0, 0) /\ offset = Pos(0, 0)
    /\ mode = "Normal" /\ should_quit = FALSE /\ panicked = FALSE
    /\ term = [width |-> 1, height |-> 1]

DocUnchanged ==
    UNCHANGED <<file_name, cursor_position, offset, mode, should_quit, term,
                panicked, row>>

DocInsert(at, c) ==
    /\ call.op = "none"
    /\ LET d == Document_insert(Doc, at, c)
       IN  /\ DocInBounds(d)
           /\ rows' = d.rows
           /\ dirty' = d.dirty
    /\ call' = [op |-> "insert", pre |-> Doc, at |-> at, arg |-> Some(c),
                ret |-> None]
    /\ DocUnchanged

DocDelete(at) ==
    /\ call.op = "none"
    /\ LET d == Document_delete(Doc, at)
       IN  rows' = d.rows /\ dirty' = d.dirty
    /\ call' = [op |-> "delete", pre |-> Doc, at |-> at, arg |-> None,
                ret |-> None]
    /\ DocUnchanged

\* Document::find reads only the line of the position
FindPositions == {Pos(x, y) : x \in {0, MaxDocChars}, y \in 0..(Len(rows) + 1)}

DocFind(query, at) ==
    /\ call.op = "none"
    /\ call' = [op |-> "find", pre |-> Doc, at |-> at, arg |-> Some(query),
                ret |-> Document_find(Doc, query, at)]
    /\ UNCHANGED <<rows, dirty>>
    /\ DocUnchanged

DocSave(sink) ==
    /\ call.op = "none"
    /\ LET s == Document_save(Doc, file_name, sink)
       IN  /\ rows' = s[1].rows
           /\ dirty' = s[1].dirty
           /\ call' = [op |-> "save", pre |-> Doc, at |-> Pos(0, 0),
                       arg |-> Some(sink), ret |-> Some(s[2])]
    /\ DocUnchanged

\* at is an index Vec::remove accepts
DocDeleteRow(at) ==
    /\ call.op = "none"
    /\ ~delete_row_panics(Doc, at)
    /\ LET d == Document_delete_row(Doc, at)
       IN  rows' = d.rows /\ dirty' = d.dirty
    /\ call' = [op |-> "delete_row", pre |-> Doc, at |-> Pos(0, at),
                arg |-> None, ret |-> None]
    /\ DocUnchanged

\* at is an index Vec::insert accepts
DocInsertRow(r, at) ==
    /\ call.op = "none"
    /\ at <= Len(rows)
    /\ LET d == Document_insert_row(Doc, r, at)
       IN  /\ DocInBounds(d)
           /\ rows' = d.rows
           /\ dirty' = d.dirty
    /\ call' = [op |-> "insert_row", pre |-> Doc, at |-> Pos(0, at),
                arg |-> Some(r), ret |-> None]
    /\ DocUnchanged

DocNext ==
    \/ \E at \in DocPositions, c \in DocChars \cup {"\n"} : DocInsert(at, c)
    \/ \E at \in DocPositions : DocDelete(at)
    \/ \E at \in FindPositions, query \in DocQueries : DocFind(query, at)
    \/ \E sink \in SinkOutcomes : DocSave(sink)
    \/ \E at \in 0..Len(rows) : DocDeleteRow(at)
    \/ \E at \in 0..Len(rows), r \in RowsOver(DocChars, 1) : DocInsertRow(r, at)

SpecDoc == DocInit /\ [][DocNext]_vars

-----------------------------------------------------------------------------
(* Document under edit: the mutators of Document and Editor::save applied   *)
(* one after the other, at any position, to a document as Editor::default   *)
(* creates or loads it.  call records the lines written by the last save    *)
(* that succeeded, or the lines the document was created or loaded with     *)
(* when there was none (saved), and whether a save that succeeded has       *)
(* written other lines than the one before (rewrote).                       *)

EditPositions == {Pos(x, y) : x \in 0..(MaxChars + 1), y \in 0..(Len(rows) + 1)}

EditInit ==
    /\ \/ rows = <<>> /\ file_name = None
       \/ rows \in LoadedRows /\ file_name = Some("f")
    /\ dirty = FALSE
    /\ call = [saved |-> rows, rewrote |-> FALSE]
    /\ row = Row_default
    /\ cursor_position = Pos(0, 0) /\ offset = Pos(0, 0)
    /\ mode = "Normal" /\ should_quit = FALSE /\ panicked = FALSE
    /\ term = [width |-> 1, height |-> 1]

\* the document d is what a mutator leaves; nothing was saved
Edited(d) ==
    /\ InBounds(d)
    /\ rows' = d.rows
    /\ dirty' = d.dirty
    /\ UNCHANGED <<file_name, cursor_position, offset, mode, should_quit, term,
                   panicked, row, call>>

EditInsert(at, c) == Edited(Document_insert(Doc, at, c))

EditDelete(at) == Edited(Document_delete(Doc, at))

\* at is an index Vec::remove accepts
EditDeleteRow(at) ==
    /\ ~delete_row_panics(Doc, at)
    /\ Edited(Document_delete_row(Doc, at))

\* at is an index Vec::insert accepts
EditInsertRow(r, at) ==
    /\ at <= Len(rows)
    /\ Edited(Document_insert_row(Doc, r, at))

\* Editor::save: saved becomes the lines written when Document::save was
\* called with a file name and every write succeeded
EditSave(answer, sink) ==
    LET s == Editor_save(Doc, file_name, answer, sink)
    IN  /\ rows' = s.d.rows
        /\ dirty' = s.d.dirty
        /\ file_name' = s.file_name
        /\ call' = [call EXCEPT !.saved = IF s.result = "Ok" THEN rows ELSE @,
                                !.rewrote = @ \/ (s.result = "Ok" /\ rows # call.saved)]
        /\ UNCHANGED <<cursor_position, offset, mode, should_quit, term,
                       panicked, row>>

EditNext ==
    \/ \E at \in EditPositions, c \in TypedChars \cup {"\n"} : EditInsert(at, c)
    \/ \E at \in EditPositions : EditDelete(at)
    \/ \E at \in 0..Len(rows) : EditDeleteRow(at)
    \/ \E at \in 0..Len(rows), r \in RowsOver(TypedChars, 1) : EditInsertRow(r, at)
    \/ \E answer \in {None, Some("f")}, sink \in SinkOutcomes : EditSave(answer, sink)

SpecEdit == EditInit /\ [][EditNext]_vars

-----------------------------------------------------------------------------
(* scroll under test: Editor::scroll applied twice in a row to any cursor,  *)
(* any offset and any terminal size a u16 pair can hold, 0 included.  call  *)
(* records the number of applications (n), the offset before the first one  *)
(* (start) and the offset before the last one (pre).                        *)

Coords == {Pos(x, y) : x \in 0..MaxCoord, y \in 0..MaxCoord}

ScrollInit ==
    /\ cursor_position \in Coords
    /\ offset \in Coords
    /\ term \in {[width |-> w, height |-> h] : w \in 0..MaxCoord, h \in 0..MaxCoord}
    /\ call = [op |-> "scroll", n |-> 0, start |-> offset, pre |-> offset]
    /\ rows = <<>> /\ dirty = FALSE /\ file_name = None
    /\ mode = "Normal" /\ should_quit = FALSE /\ panicked = FALSE
    /\ row = Row_default

ScrollCall ==
    /\ call.n < 2
    /\ offset' = scroll(cursor_position, offset, term.width, term.height)
    /\ call' = [op |-> "scroll", n |-> call.n + 1, start |-> call.start,
                pre |-> offset]
    /\ UNCHANGED <<rows, dirty, file_name, cursor_position, mode, should_quit,
                   term, panicked, row>>

ScrollNext == ScrollCall

SpecScroll == ScrollInit /\ [][ScrollNext]_vars

-----------------------------------------------------------------------------
(* Properties of the editor (specification Spec)                           *)

\* C1: after any sequence of commands the cursor is on a line of the buffer
\* or just past the last one (0 <= y <= lineCount), its column is at most
\* the length of its line, and it is 0 at y = lineCount.
C1_CursorPositionInvariant ==
    /\ cursor_position.y <= Len(rows)
    /\ cursor_position.y < Len(rows) =>
           cursor_position.x <= rows[cursor_position.y + 1].len
    /\ cursor_position.y = Len(rows) => cursor_position.x = 0

C3_NoCommandFails == ~panicked

-----------------------------------------------------------------------------
(* Properties of Row (specification SpecRow)                               *)

\* the number of clusters of s, counted from the break rule alone
ClusterCount(s) == Cardinality({i \in 1..Len(s) : IsBreakBefore(s, i)})

\* offsets inside s at which a cluster of s starts, and its two ends
Boundaries(s) == {i - 1 : i \in {j \in 1..Len(s) : IsBreakBefore(s, j)}} \cup {0, Len(s)}

\* code points of the first n clusters of g
Width(g, n) == Len(Collect(Take(g, n)))

\* the piece of s that held [from, to) of the old text, moved by shift, lies
\* in one cluster of s
Intact(s, from, to, shift) ==
    \A b \in Boundaries(s) : ~(from + shift < b /\ b < to + shift)

\* s is old with the code point c put in front of cluster number p, and no
\* cluster of old is cut in two
InsertedAtBoundary(old, s, p, c) ==
    LET g == Graphemes(old)
        k == Width(g, p)
    IN  /\ s = Append(SubSeq(old, 1, k), c) \o SubSeq(old, k + 1, Len(old))
        /\ \A i \in 1..Len(g) :
              Intact(s, Width(g, i - 1), Width(g, i), IF i <= p THEN 0 ELSE 1)

\* s is old without its cluster number p (from 0), and no other cluster of
\* old is cut in two
DeletedWholeCluster(old, s, p) ==
    LET g == Graphemes(old)
        k == Width(g, p)
        n == Len(g[p + 1])
    IN  /\ s = SubSeq(old, 1, k) \o SubSeq(old, k + n + 1, Len(old))
        /\ \A i \in 1..Len(g) :
              i # p + 1 =>
                  Intact(s, Width(g, i - 1), Width(g, i), IF i <= p THEN 0 ELSE 0 - n)

C6_InsertDeleteRoundTrip ==
    (call.op = "insert_delete" /\ call.pos <= call.orig.len) =>
        row.string = call.orig.string

\* C7: split(pos), for pos in [0, len], leaves clusters [0, pos) in the line
\* and returns clusters [pos, len); appending the returned line restores the
\* line.
C7_SplitAppendRoundTrip ==
    /\ (call.op = "split" /\ call.pos <= call.pre.len) =>
           /\ Graphemes(row.string) = SubSeq(Graphemes(call.pre.string), 1, call.pos)
           /\ Graphemes(call.ret[1].string) =
                  SubSeq(Graphemes(call.pre.string), call.pos + 1, call.pre.len)
    /\ (call.op = "split_append" /\ call.pos <= call.orig.len) =>
           row = call.orig

\* a line of three clusters, one of two code points, split in the middle and
\* put together again
C7_Witness ==
    /\ call.op = "split_append"
    /\ call.orig.string = <<"a", "M", "b">>
    /\ call.pos = 1
    /\ call.pre.string = <<"a", "M">>
    /\ call.arg[1].string = <<"b">>
    /\ row = call.orig

-----------------------------------------------------------------------------
(* Properties of Document (specification SpecDoc)                          *)

\* C4: the dirty flag goes from set to cleared only in a persist step that
\* reports success; a persist step whose sink fails, at file creation or at
\* a write, returns the failure and leaves the flag as it was.
C4_DirtyClearedOnlyBySuccessfulPersist ==
    /\ (call.pre.dirty /\ ~dirty) =>
           (call.op = "save" /\ call.arg = Some("ok") /\ call.ret = Some("Ok"))
    /\ (call.op = "save" /\ call.arg # Some("ok")) =>
           (call.ret = Some("Err") /\ dirty = call.pre.dirty)

\* an edited document whose persist step just failed at a write: still dirty
C4_Witness ==
    /\ call.op = "save"
    /\ call.arg = Some("write_fails")
    /\ call.ret = Some("Err")
    /\ call.pre.dirty
    /\ dirty
    /\ rows # <<>>

\* C8: insertChar at position.y = lineCount appends exactly one line: the
\* old lines are unchanged, a character other than newline makes the new
\* last line that single character, and the document is dirty.
C8_InsertAtEndAppendsLine ==
    (call.op = "insert" /\ call.at.y = Len(call.pre.rows)) =>
        /\ Len(rows) = Len(call.pre.rows) + 1
        /\ SubSeq(rows, 1, Len(call.pre.rows)) = call.pre.rows
        /\ call.arg[1] # "\n" =>
               (rows[Len(rows)].string = <<call.arg[1]>> /\ rows[Len(rows)].len = 1)
        /\ dirty

\* a character written past the last line of a clean two-line document
C8_Witness ==
    /\ call.op = "insert"
    /\ Len(call.pre.rows) = 2
    /\ ~call.pre.dirty
    /\ call.at.y = 2
    /\ call.arg = Some("a")
    /\ Len(rows) = 3
    /\ rows[3].string = <<"a">>

\* C9: deleteChar at the end of a line that has a next line merges the two:
\* one line fewer, line y is the old line y followed by the old line y+1,
\* and the other lines keep their content and order.
C9_DeleteAtEndMergesLines ==
    (/\ call.op = "delete"
     /\ call.at.y + 1 < Len(call.pre.rows)
     /\ call.at.x = call.pre.rows[call.at.y + 1].len) =>
        LET old == call.pre.rows
            y == call.at.y
        IN  /\ Len(rows) = Len(old) - 1
            /\ rows[y + 1].string = old[y + 1].string \o old[y + 2].string
            /\ \A i \in 1..Len(rows) :
                  /\ i < y + 1 => rows[i] = old[i]
                  /\ i > y + 1 => rows[i] = old[i + 1]

\* the first two of three non-empty lines merged, the third moved up
C9_Witness ==
    /\ call.op = "delete"
    /\ Len(call.pre.rows) = 3
    /\ call.at = Pos(1, 0)
    /\ call.pre.rows[1].string = <<"a">>
    /\ call.pre.rows[2].string = <<"M">>
    /\ call.pre.rows[3].string = <<"a">>
    /\ Len(rows) = 2
    /\ rows[1].string = <<"a", "M">>
    /\ rows[2].string = <<"a">>

\* offsets (from 0) at which query occurs in s
Occurrences(s, query) ==
    {i \in 0..(Len(s) - Len(query)) : SubSeq(s, i + 1, i + Len(query)) = query}

FirstOccurrence(s, query) ==
    CHOOSE i \in Occurrences(s, query) : \A j \in Occurrences(s, query) : i <= j

\* clusters of s that start before offset i
ClustersBefore(s, i) == Cardinality({j \in 1..i : IsBreakBefore(s, j)})

\* the first occurrence of query in s starts where a cluster starts
FirstOccurrenceAligned(s, query) ==
    /\ Occurrences(s, query) # {}
    /\ IsBreakBefore(s, FirstOccurrence(s, query) + 1)

\* what find is to return when the lines it may stop at are the set S
FindResult(rs, query, S) ==
    IF S = {} THEN None
    ELSE LET y == CHOOSE i \in S : \A j \in S : i <= j
         IN  Some(Pos(ClustersBefore(rs[y + 1].string,
                                     FirstOccurrence(rs[y + 1].string, query)), y))

HelloWorld ==
    [rows |-> <<Row_from(<<"h", "e", "l", "l", "o", " ", "w", "o", "r", "l", "d">>),
                Row_from(<<"f", "o", "o", " ", "b", "a", "r">>)>>,
     dirty |-> FALSE]

\* C10 as claimed: find returns the first line at or after from.y that
\* contains query, with the cluster index of the first occurrence in it, and
\* none when no such line contains query.
C10_FindFirstLineContaining ==
    call.op = "find" =>
        LET rs == call.pre.rows
            S == {y \in call.at.y..(Len(rs) - 1) :
                     Occurrences(rs[y + 1].string, call.arg[1]) # {}}
        IN  call.ret = FindResult(rs, call.arg[1], S)

\* C10 as amended: a line counts only when the first occurrence of query in
\* it starts at a cluster boundary; find never looks at lines before from.y.
C10_FindFirstLineWithAlignedMatch ==
    /\ call.op = "find" =>
           LET rs == call.pre.rows
               S == {y \in call.at.y..(Len(rs) - 1) :
                        FirstOccurrenceAligned(rs[y + 1].string, call.arg[1])}
           IN  /\ call.ret = FindResult(rs, call.arg[1], S)
               /\ rows = rs
    /\ Document_find(HelloWorld, <<"b", "a", "r">>, Pos(0, 0)) = Some(Pos(4, 1))
    /\ Document_find(HelloWorld, <<"z", "z", "z">>, Pos(0, 0)) = None

\* the only line with the query lies before from.y: none is returned
C10_Witness ==
    /\ call.op = "find"
    /\ call.at.y = 1
    /\ Len(rows) = 2
    /\ rows[1].string = <<"a", "M">>
    /\ rows[2].string = <<"M">>
    /\ call.arg = Some(<<"a", "M">>)
    /\ call.ret = None

\* C18: deleteChar(position) with position.y >= lineCount is a no-op: it
\* leaves the lines and the dirty flag of the buffer unchanged
C18_DeleteCharPastLastLineIsNoOp ==
    call.op = "delete" /\ call.at.y >= Len(call.pre.rows) =>
        rows = call.pre.rows /\ dirty = call.pre.dirty

-----------------------------------------------------------------------------
(* Properties of scroll (specification SpecScroll)                          *)

\* C12 as stated: scroll applied twice in a row with the same cursor and the
\* same terminal size yields the offset the first application yielded, for
\* every cursor, every starting offset and every width and height
C12_ScrollIdempotent == call.n = 2 => offset = call.pre

\* C12: scroll applied twice in a row with the same cursor and the same
\* terminal size of width >= 1 and height >= 1 yields the offset the first
\* application yielded, for every cursor and every starting offset
C12_ScrollIdempotentOnNonEmptyViewport ==
    call.n = 2 /\ term.width >= 1 /\ term.height >= 1 => offset = call.pre

\* both applications made, the first one having moved the window both ways
C12_Witness ==
    /\ call.n = 2 /\ term.width >= 1 /\ term.height >= 1
    /\ call.pre.x # call.start.x /\ call.pre.y # call.start.y
    /\ offset = call.pre

-----------------------------------------------------------------------------
(* Properties of single commands (specification SpecKey): call' names the  *)
(* key of the step, the unprimed variables are the state before it         *)

\* the number of lines, and the length in grapheme clusters of line y
lineCount == Len(rows)
length(y) == ClusterCount(rows[y + 1].string)

\* C11: a Right command with x < length(line y) moves the cursor to
\* (x+1, y), and at x = length(line y) of an existing line to (0, y+1); a
\* Left command with x > 0 moves it to (x-1, y), and at (0, y) with y > 0 to
\* (length(line y-1), y-1); Left at (0, 0) and Right at y = lineCount leave
\* the cursor where it is
C11_HorizontalWrap ==
    [][LET x == cursor_position.x
           y == cursor_position.y
       IN  /\ call'.op = "Right" =>
                 /\ y < lineCount /\ x < length(y) => cursor_position' = Pos(x + 1, y)
                 /\ y < lineCount /\ x = length(y) => cursor_position' = Pos(0, y + 1)
                 /\ y = lineCount => cursor_position' = cursor_position
           /\ call'.op = "Left" =>
                 /\ x > 0 => cursor_position' = Pos(x - 1, y)
                 /\ x = 0 /\ y > 0 => cursor_position' = Pos(length(y - 1), y - 1)
                 /\ x = 0 /\ y = 0 => cursor_position' = cursor_position]_vars

\* the cursor is a valid position: on a line and not past its end, or at
\* column 0 of the position after the last line
ValidCursor ==
    /\ cursor_position.y <= lineCount
    /\ cursor_position.x <= (IF cursor_position.y < lineCount
                             THEN length(cursor_position.y) ELSE 0)

\* the contents of the lines rs
Texts(rs) == [i \in 1..Len(rs) |-> rs[i].string]

\* old with the text c put in front of its cluster number p (from 0)
InsertedAt(old, p, c) ==
    LET k == Width(Graphemes(old), p)
    IN  SubSeq(old, 1, k) \o c \o SubSeq(old, k + 1, Len(old))

\* C13: InsertChar(ch), ch not a newline, with the cursor at a valid (x, y)
\* on a line: line y becomes its old content with ch inserted at grapheme
\* column x, every other line is unchanged, and the cursor becomes (x+1, y)
C13_InsertCharAdvancesCursor ==
    [][LET x == cursor_position.x
           y == cursor_position.y
       IN  call'.op = "Char" /\ call'.arg # Some("\n")
                /\ ValidCursor /\ y < lineCount =>
              /\ Texts(rows') = [Texts(rows) EXCEPT
                                    ![y + 1] = InsertedAt(@, x, call'.arg)]
              /\ cursor_position' = Pos(x + 1, y)]_vars

\* the contents ts with line y (from 0, y > 0) appended to line y-1
Merged(ts, y) ==
    [i \in 1..(Len(ts) - 1) |->
        IF i < y THEN ts[i] ELSE IF i = y THEN ts[y] \o ts[y + 1] ELSE ts[i + 1]]

\* C14: DeleteBackward with the cursor at (0, y), 0 < y < lineCount, merges
\* lines y-1 and y into their concatenation, lineCount decreases by 1 and
\* the cursor becomes (old length(line y-1), y-1); at (0, 0) it changes
\* neither the buffer nor the cursor
C14_DeleteBackwardMergesLines ==
    [][LET x == cursor_position.x
           y == cursor_position.y
       IN  call'.op = "Backspace" =>
              /\ x = 0 /\ 0 < y /\ y < lineCount =>
                    /\ Texts(rows') = Merged(Texts(rows), y)
                    /\ Len(rows') = lineCount - 1
                    /\ cursor_position' = Pos(length(y - 1), y - 1)
              /\ x = 0 /\ y = 0 =>
                    /\ rows' = rows /\ dirty' = dirty
                    /\ cursor_position' = cursor_position]_vars

\* ["a", "a"] with the cursor at (0, 1) has become ["aa"] with the cursor
\* at (1, 0)
C14_Witness ==
    /\ call.op = "Backspace"
    /\ Texts(rows) = << <<"a", "a">> >>
    /\ cursor_position = Pos(1, 0)

\* C15: in PendingLineMove mode (CtrlXPressed), for every cursor with
\* y < lineCount, after an Up or a Down command the line at the cursor's new
\* y has the content of the line that was at the cursor's old y
C15_MoveLineTracksLine ==
    [][call'.op \in {"Up", "Down"} /\ mode = "CtrlXPressed"
            /\ cursor_position.y < lineCount =>
          /\ cursor_position'.y < Len(rows')
          /\ rows'[cursor_position'.y + 1].string
                 = rows[cursor_position.y + 1].string]_vars

\* C16: Ctrl-X enters PendingLineMove (CtrlXPressed), Esc returns to Normal,
\* and every other command leaves the mode unchanged; in Normal mode Up and
\* Down leave the buffer's lines and dirty flag unchanged
C16_ModeChangesOnlyOnModeCommands ==
    [][/\ call'.op = "CtrlX" => mode' = "CtrlXPressed"
       /\ call'.op = "Esc" => mode' = "Normal"
       /\ call'.op \notin {"CtrlX", "Esc"} => mode' = mode
       /\ call'.op \in {"Up", "Down"} /\ mode = "Normal" =>
             rows' = rows /\ dirty' = dirty]_vars

\* a character typed in PendingLineMove mode, the mode still being that
C16_Witness ==
    /\ call.op = "Char"
    /\ mode = "CtrlXPressed"
    /\ dirty

\* the cursor moved to line y1 of the unchanged buffer: x is kept, cut down
\* to the length of line y1, which is 0 when y1 = lineCount
MovedToLine(y1) ==
    LET end_of_line == IF y1 < lineCount THEN length(y1) ELSE 0
    IN  Pos(Min(cursor_position.x, end_of_line), y1)

\* C17: with h the viewport height, Up moves the cursor to line max(0, y-1),
\* Down to min(lineCount, y+1), PageUp to max(0, y-h) and PageDown to
\* min(lineCount, y+h); in all four cases x becomes min(x, length(line y'))
\* with the length 0 when y' = lineCount (Up and Down in Normal mode)
C17_VerticalMovement ==
    [][LET y == cursor_position.y
           h == term'.height
       IN  /\ call'.op = "Up" /\ mode = "Normal" =>
                 cursor_position' = MovedToLine(IF y >= 1 THEN y - 1 ELSE 0)
           /\ call'.op = "Down" /\ mode = "Normal" =>
                 cursor_position' = MovedToLine(Min(lineCount, y + 1))
           /\ call'.op = "PageUp" =>
                 cursor_position' = MovedToLine(IF y >= h THEN y - h ELSE 0)
           /\ call'.op = "PageDown" =>
                 cursor_position' = MovedToLine(Min(lineCount, y + h))]_vars

\* PageDown by a viewport of height 1 has moved the cursor from line 0 to
\* line 1 of a two-line buffer
C17_Witness ==
    /\ call.op = "PageDown"
    /\ term.height = 1
    /\ lineCount = 2
    /\ cursor_position.y = 1

\* the contents ts with line y (from 0) cut in two in front of its cluster
\* number x, the second part being the new line y+1
SplitAt(ts, x, y) ==
    LET old == ts[y + 1]
        k == Width(Graphemes(old), x)
    IN  [i \in 1..(Len(ts) + 1) |->
            IF i <= y THEN ts[i]
            ELSE IF i = y + 1 THEN SubSeq(old, 1, k)
            ELSE IF i = y + 2 THEN SubSeq(old, k + 1, Len(old))
            ELSE ts[i - 1]]

SameMultiset(as, bs) ==
    /\ Len(as) = Len(bs)
    /\ \A i \in 1..Len(as) :
          Cardinality({j \in 1..Len(as) : as[j] = as[i]})
              = Cardinality({j \in 1..Len(bs) : bs[j] = as[i]})

\* C20: in PendingLineMove mode (CtrlXPressed) an Up or a Down command
\* never loses or duplicates a line: the buffer has the same lineCount and
\* the same multiset of line contents after it as before, also with the
\* cursor on the first line for Up and on the last line for Down
C20_MoveLineKeepsLines ==
    [][call'.op \in {"Up", "Down"} /\ mode = "CtrlXPressed" =>
          /\ Len(rows') = lineCount
          /\ SameMultiset(Texts(rows), Texts(rows'))]_vars

\* the lines at or after the cursor's at which a search for query stops
MatchingLines(query) ==
    {y \in cursor_position.y..(lineCount - 1) :
        FirstOccurrenceAligned(rows[y + 1].string, query)}

\* C22: a Find command never changes the lines or the dirty flag of the
\* buffer, leaves the cursor unchanged when there is no match, and given the
\* same query as the Find command just before it leaves the cursor where
\* that one put it
C22_FindTwiceIsFindOnce ==
    [][call'.op = "CtrlF" /\ call'.arg.query # None =>
          /\ rows' = rows /\ dirty' = dirty
          /\ MatchingLines(call'.arg.query[1]) = {} =>
                cursor_position' = cursor_position
          /\ call'.arg.n = 2 => cursor_position' = cursor_position]_vars

\* the second of two Find commands with the same query, the first of which
\* moved the cursor to a match on a later line
C22_Witness ==
    /\ call.op = "CtrlF"
    /\ call.arg.query # None
    /\ call.arg.n = 2
    /\ call.arg.from.y < cursor_position.y

\* cur is a valid position of the lines rs
ValidPosition(rs, cur) ==
    /\ cur.y <= Len(rs)
    /\ cur.x <= (IF cur.y < Len(rs) THEN ClusterCount(rs[cur.y + 1].string) ELSE 0)

\* C23: InsertChar(ch), ch a character or a newline, at a valid cursor (the
\* append position y = lineCount included), immediately followed by
\* DeleteBackward, restores the lines of the buffer (same lineCount, same
\* contents) and the cursor to what they were before the InsertChar
C23_InsertThenDeleteBackwardRestores ==
    [][call.op = "Char" /\ call'.op = "Backspace"
            /\ ValidPosition(call.before.rows, call.before.cursor) =>
          /\ Texts(rows') = Texts(call.before.rows)
          /\ cursor_position' = call.before.cursor]_vars

-----------------------------------------------------------------------------
(* Properties of a document under edit (specification SpecEdit)            *)

\* C21: in every reachable state in which the dirty flag is false, the
\* contents of the lines are those written by the last save that succeeded,
\* or those the document was created or loaded with if none has
C21_UnsavedChangesNeverHidden == ~dirty => Texts(rows) = Texts(call.saved)

\* a document that was changed, then saved with success
C21_Witness ==
    /\ ~dirty
    /\ call.rewrote
    /\ call.saved = rows

=============================================================================
